---- MODULE Spec2Model ----
(***************************************************************************)
(* Pomodoro timer of src/src/components/PomodoroTimer.tsx (current        *)
(* version, lines 1-810): the persisted timer snapshot, the startup       *)
(* reconciliation (initialization effect and simulateCompletedSessions),  *)
(* the effects that run after every render, the live timer (tick,         *)
(* start/pause, reset, skip, phase buttons), the settings panel, the     *)
(* Backup & Restore dialog of src/src/components/DataExport.tsx, and the  *)
(* task list and selection of src/src/components/TaskManager.tsx.         *)
(*                                                                         *)
(* One action is one handler together with the re-render it causes and    *)
(* every effect of that render.  The loop of simulateCompletedSessions is *)
(* modelled one iteration per step so that its termination is a property  *)
(* of the model and not an assumption.                                    *)
(*                                                                         *)
(* Not modelled: the date, duration and task fields of a session record,  *)
(* the title and pomodoro counts of a task, sounds, the document title,   *)
(* the localStorage quota.                                                *)
(***************************************************************************)
EXTENDS Integers, Sequences, FiniteSets, TLC

\* ---------------------------------------------------------------- bounds
\* largest phase duration (seconds) of the small configurations
MaxDur == 2
\* largest timeLeft of a small persisted snapshot
MaxTimeLeft == 3
\* largest completedSessions of a small persisted snapshot
MaxCompleted == 2
\* largest wall-clock gap (seconds) between the last write and a mount
MaxElapsed == 5

\* live timer: largest completedSessions and history length at which a
\* session may still be completed or the page closed
MaxLiveCompleted == 2
MaxLog == 3

\* degenerate stored data: the most negative timeLeft of a stored snapshot
MaxNegative == 1

\* Backup & Restore: longest stored list of tasks or sessions
MaxList == 2

\* task list: number of tasks added during a visit
MaxTasks == 3

\* ------------------------------------------------------------- data model
SessionType == {"work", "shortBreak", "longBreak"}

\* useState initial value of settings
DefaultSettings ==
    [workDuration |-> 25 * 60, shortBreakDuration |-> 5 * 60,
     longBreakDuration |-> 15 * 60, sessionsUntilLongBreak |-> 4,
     soundEnabled |-> TRUE, autoStartBreaks |-> FALSE, autoStartWork |-> FALSE]

\* the TimerState fields the reconciliation reads; lastUpdateTime is
\* represented by the elapsed time chosen when the page is mounted
TimerState(cs, tl, run, done) ==
    [currentState |-> cs, timeLeft |-> tl, isRunning |-> run, completedSessions |-> done]

\* small configurations a user can have saved (a duration field accepts 0)
SmallSettings ==
    { [workDuration |-> w, shortBreakDuration |-> s, longBreakDuration |-> l,
       sessionsUntilLongBreak |-> n, soundEnabled |-> TRUE,
       autoStartBreaks |-> a, autoStartWork |-> a] :
         w \in 0..MaxDur, s \in 0..MaxDur, l \in 0..MaxDur, n \in {2, 3}, a \in BOOLEAN }

\* values typed into a duration input: none, the smallest, the largest
DurationChoices == {0, 1, MaxDur}

\* configurations of the live timer runs
LiveSettings ==
    { [workDuration |-> w, shortBreakDuration |-> sb, longBreakDuration |-> MaxDur,
       sessionsUntilLongBreak |-> n, soundEnabled |-> TRUE,
       autoStartBreaks |-> ab, autoStartWork |-> aw] :
         w \in DurationChoices, sb \in DurationChoices, n \in {2, 3},
         ab \in BOOLEAN, aw \in BOOLEAN }

\* small snapshots the timer can have written
SmallSnapshots ==
    { TimerState(cs, tl, run, done) :
         cs \in SessionType, tl \in 0..MaxTimeLeft, run \in BOOLEAN, done \in 0..MaxCompleted }

\* stored snapshots around zero, among them values the timer does not
\* write itself (an edited or damaged pomodoro-timer-state)
SkewSnapshots ==
    { TimerState(cs, tl, run, done) :
         cs \in SessionType, tl \in (-MaxNegative)..1, run \in BOOLEAN, done \in 0..1 }

\* a stored pomodoro-timer-state that JSON.parse rejects
Unparseable == [text |-> "not JSON"]

\* JSON.parse of line 187 returns a TimerState
Parses(t) == DOMAIN t = {"currentState", "timeLeft", "isRunning", "completedSessions"}

\* the two scenarios of the specification (default configuration)
ScenarioSnapshots == { TimerState("work", 10, TRUE, 0), TimerState("work", 5, TRUE, 3) }
ScenarioElapsed == {20, 3005}

\* Iterations after which the model stops counting in the away simulation.
\* A run that terminates needs fewer: with sessionsUntilLongBreak <= 3 every
\* phase recurs within 6 iterations, so 6 iterations consume at least one
\* second unless all durations are 0, and totalElapsed <= MaxElapsed + MaxDur.
MaxAway == 6 * (MaxElapsed + MaxDur + 1)

VARIABLES
    pc,                    \* "closed", "sim" (inside simulateCompletedSessions), "ready"
    stSettings,            \* localStorage pomodoro-settings: <<>> or <<settings>>
    stTimerState,          \* localStorage pomodoro-timer-state: <<>> or <<snapshot>>
    stSessions,            \* localStorage pomodoro-sessions: sequence of session types
    settings, currentState, timeLeft, isRunning, completedSessions, isInitialized,
    parsedState,           \* init effect local: <<>> or <<snapshot read at mount>>
    parseError,            \* init effect: the catch of lines 217-219 was entered
    timeSinceLastUpdate,   \* init effect local
    settingsLoaded,        \* init effect: setSettings(loadedSettings) was called
    currentSettings,       \* simulate parameter (the settings loaded by the init effect)
    remainingTime, currentSessionType, sessions, completedWhileAway,  \* simulate locals
    awayToast,             \* number shown by the "completed while you were away" toast, 0 if none
    parentCompleted,       \* Index.completedSessions, incremented by onTaskComplete
    live, liveTicks,       \* a timer left running from the snapshot, and the ticks it received
    stTasks,               \* localStorage pomodoro-tasks: sequence of task ids
    stTheme,               \* localStorage pomodoro-theme: <<>> or <<theme>>
    importData,            \* DataExport.importData: <<>> or <<the parsed file>>
    mountEffects,          \* save effects of the mount pass that ran before the init effect
    tasksOpen,             \* the Tasks tab is shown: TaskManager is mounted
    tasks,                 \* TaskManager.tasks: sequence of [id, isCompleted]
    currentTask,           \* Index.currentTask: <<>> (null) or <<task>>
    now                    \* Date.now() of the last task added

vars == <<pc, stSettings, stTimerState, stSessions, settings, currentState, timeLeft,
          isRunning, completedSessions, isInitialized, parsedState, parseError, timeSinceLastUpdate,
          settingsLoaded, currentSettings, remainingTime, currentSessionType, sessions, completedWhileAway,
          awayToast, parentCompleted, live, liveTicks, stTasks, stTheme, importData,
          mountEffects, tasksOpen, tasks, currentTask, now>>

\* what the timer never touches
dataVars == <<stTasks, stTheme, importData>>

\* the task list and the selection
taskVars == <<tasksOpen, tasks, currentTask, now>>

\* ---------------------------------------------------------------- helpers
Max(a, b) == IF a >= b THEN a ELSE b

getCurrentDurationForState(state, s) ==
    CASE state = "work" -> s.workDuration
      [] state = "shortBreak" -> s.shortBreakDuration
      [] state = "longBreak" -> s.longBreakDuration
      [] OTHER -> s.workDuration

\* mutant: catches up also when no full second has passed
ShouldCatchUpAtZero(p, e) == p.isRunning /\ e >= 0

\* line 191: the snapshot was running and at least one second has passed
ShouldCatchUp(p, e) == p.isRunning /\ e > 0

\* mutant: the elapsed second in progress is not subtracted
NewTimeLeftOffByOne(p, e) == Max(0, p.timeLeft - e + 1)

\* line 193
NewTimeLeft(p, e) == Max(0, p.timeLeft - e)

\* mutant: the part of the session already spent is not added
TotalElapsedNoOffset(p, e, s) == e

\* lines 204-205: time since the start of the snapshot's session
TotalElapsed(p, e, s) == e + (getCurrentDurationForState(p.currentState, s) - p.timeLeft)

\* mutant: the rule is applied to the count before the increment
BreakAfterOldCount(n, s) ==
    IF (n - 1) % s.sessionsUntilLongBreak = 0 THEN "longBreak" ELSE "shortBreak"

\* lines 246-250 and 347-355: the break that follows the work session
\* which made the count n
BreakAfter(n, s) == IF n % s.sessionsUntilLongBreak = 0 THEN "longBreak" ELSE "shortBreak"

\* mutant: only work sessions are counted
AwayAfterWorkOnly(type, away) == IF type = "work" THEN away + 1 ELSE away

\* line 237
AwayAfter(type, away) == away + 1

\* mutant: the time spent is taken for the time left
PartialTimeLeftSpent(sessionDuration, remaining) == remaining

\* line 256
PartialTimeLeft(sessionDuration, remaining) == sessionDuration - remaining

\* mutant: the effect does not run
SettingsEffectNever(changed, cs, tl, run, s) == tl

\* mutant: only work sessions are recorded
saveSessionWorkOnly(history, type) == IF type = "work" THEN Append(history, type) ELSE history

\* lines 95-118: the record is pushed onto the stored list
saveSession(history, type) == Append(history, type)

\* mutant: the parent's counter is not incremented
handleTaskCompleteDropped(prev) == prev

\* Index.tsx lines 23-25, the onTaskComplete passed to the timer
handleTaskComplete(prev) == prev + 1

\* the effect on [settings, currentState]: a render in which one of them
\* changed resets timeLeft to the full duration unless the timer is running
SettingsEffect(changed, cs, tl, run, s) ==
    IF changed /\ ~run THEN getCurrentDurationForState(cs, s) ELSE tl

\* the render that follows the initialization effect and its effects: the
\* two save effects (isInitialized became true) and the [settings,
\* currentState] effect, which runs when the settings object was replaced
\* or the phase differs from the initial 'work'
FinishInit(cs, tl, run, done, s, loaded) ==
    LET tl2 == SettingsEffect(loaded \/ cs # "work", cs, tl, run, s)
    IN  /\ settings' = s
        /\ currentState' = cs
        /\ timeLeft' = tl2
        /\ isRunning' = run
        /\ completedSessions' = done
        /\ isInitialized' = TRUE
        /\ stSettings' = <<s>>
        /\ stTimerState' = <<TimerState(cs, tl2, run, done)>>
        /\ pc' = "ready"

\* ------------------------------------------------------------------- Init
\* the component as constructed by useState, the page not yet mounted
Unmounted ==
    /\ pc = "closed"
    /\ settings = DefaultSettings
    /\ currentState = "work"
    /\ timeLeft = DefaultSettings.workDuration
    /\ isRunning = FALSE
    /\ completedSessions = 0
    /\ isInitialized = FALSE
    /\ parsedState = <<>>
    /\ parseError = FALSE
    /\ timeSinceLastUpdate = 0
    /\ settingsLoaded = FALSE
    /\ currentSettings = DefaultSettings
    /\ remainingTime = 0
    /\ currentSessionType = "work"
    /\ sessions = 0
    /\ completedWhileAway = 0
    /\ awayToast = 0
    /\ parentCompleted = 0
    /\ live = TimerState("work", DefaultSettings.workDuration, FALSE, 0)
    /\ liveTicks = 0
    /\ mountEffects = {}
    /\ tasksOpen = FALSE
    /\ tasks = <<>>
    /\ currentTask = <<>>
    /\ now = 0

\* no tasks, no theme, no file loaded in the Backup & Restore dialog
OnlyTimerData == stTasks = <<>> /\ stTheme = <<>> /\ importData = <<>>

\* a page about to be opened on stored data of an earlier visit
Init ==
    /\ Unmounted
    /\ OnlyTimerData
    /\ \/ /\ stSettings \in {<<>>} \cup { <<s>> : s \in SmallSettings }
          /\ stTimerState \in {<<>>, <<Unparseable>>} \cup { <<t>> : t \in SmallSnapshots }
       \/ /\ stSettings \in {<<>>, <<DefaultSettings>>}
          /\ stTimerState \in { <<t>> : t \in ScenarioSnapshots }
    /\ stSessions = <<>>

\* a page about to be opened for the first time after the settings were saved
LiveInit ==
    /\ Unmounted
    /\ OnlyTimerData
    /\ stSettings \in { <<s>> : s \in LiveSettings }
    /\ stTimerState = <<>>
    /\ stSessions = <<>>

\* a page about to be opened on degenerate stored data
SkewInit ==
    /\ Unmounted
    /\ OnlyTimerData
    /\ stSettings \in {<<>>} \cup { <<s>> : s \in SmallSettings }
    /\ stTimerState \in { <<t>> : t \in SkewSnapshots }
    /\ stSessions = <<>>

\* ------------------------------------------------- initialization effect
\* elapsed times tried for the stored snapshot
ElapsedChoices ==
    IF stTimerState # <<>> /\ Parses(stTimerState[1]) /\ stTimerState[1] \in ScenarioSnapshots
    THEN ScenarioElapsed ELSE (-1)..MaxElapsed

\* useEffect(..., []) of lines 169-223 with Date.now() such that
\* floor((now - lastUpdateTime) / 1000) = e
Mount(e) ==
    /\ pc = "closed"
    /\ LET loaded == stSettings # <<>>
           loadedSettings == IF loaded THEN stSettings[1] ELSE settings
       IN  /\ settingsLoaded' = loaded
           /\ parseError' = (stTimerState # <<>> /\ ~Parses(stTimerState[1]))
           /\ IF stTimerState = <<>> \/ ~Parses(stTimerState[1])
              THEN /\ FinishInit(currentState, timeLeft, isRunning, completedSessions,
                                 loadedSettings, loaded)
                   /\ parsedState' = <<>>
                   /\ timeSinceLastUpdate' = 0
                   /\ UNCHANGED <<currentSettings, remainingTime, currentSessionType, sessions,
                                  live>>
              ELSE LET p == stTimerState[1]
                       newTimeLeft == NewTimeLeft(p, e)
                   IN  /\ parsedState' = <<p>>
                       /\ timeSinceLastUpdate' = e
                       /\ live' = p
                       /\ IF ShouldCatchUp(p, e)
                          THEN IF newTimeLeft > 0
                               THEN /\ FinishInit(p.currentState, newTimeLeft, TRUE,
                                                  p.completedSessions, loadedSettings, loaded)
                                    /\ UNCHANGED <<currentSettings, remainingTime, currentSessionType, sessions>>
                               ELSE \* simulateCompletedSessions(parsedState, totalElapsed, loadedSettings)
                                    /\ remainingTime' = TotalElapsed(p, e, loadedSettings)
                                    /\ currentSessionType' = p.currentState
                                    /\ sessions' = p.completedSessions
                                    /\ currentSettings' = loadedSettings
                                    /\ pc' = "sim"
                                    /\ UNCHANGED <<settings, currentState, timeLeft, isRunning,
                                                   completedSessions, isInitialized,
                                                   stSettings, stTimerState>>
                          ELSE /\ FinishInit(p.currentState, p.timeLeft, p.isRunning,
                                             p.completedSessions, loadedSettings, loaded)
                               /\ UNCHANGED <<currentSettings, remainingTime, currentSessionType, sessions>>
    /\ completedWhileAway' = 0
    /\ awayToast' = 0
    /\ liveTicks' = 0
    /\ UNCHANGED <<stSessions, parentCompleted, dataVars, taskVars, mountEffects>>

\* mutant: a save effect without the isInitialized guard
SaveEffectUnguarded(initialized, value, stored) == <<value>>

\* the body of a save effect (lines 281-285, 288-300) in a render whose
\* isInitialized is initialized: the stored value after it
SaveEffect(initialized, value, stored) == IF initialized THEN <<value>> ELSE stored

\* the effects of the first render run in one pass, each with the state of
\* that render.  A save effect that runs before the initialization effect:
MountSaveSettings ==
    /\ pc = "closed"
    /\ "settings" \notin mountEffects
    /\ mountEffects' = mountEffects \cup {"settings"}
    /\ stSettings' = SaveEffect(isInitialized, settings, stSettings)
    /\ UNCHANGED <<pc, stTimerState, stSessions, settings, currentState, timeLeft, isRunning,
                   completedSessions, isInitialized, parsedState, parseError,
                   timeSinceLastUpdate, settingsLoaded, currentSettings, remainingTime,
                   currentSessionType, sessions, completedWhileAway, awayToast,
                   parentCompleted, live, liveTicks, dataVars, taskVars>>

MountSaveTimerState ==
    /\ pc = "closed"
    /\ "timerState" \notin mountEffects
    /\ mountEffects' = mountEffects \cup {"timerState"}
    /\ stTimerState' = SaveEffect(isInitialized,
                                  TimerState(currentState, timeLeft, isRunning, completedSessions),
                                  stTimerState)
    /\ UNCHANGED <<pc, stSettings, stSessions, settings, currentState, timeLeft, isRunning,
                   completedSessions, isInitialized, parsedState, parseError,
                   timeSinceLastUpdate, settingsLoaded, currentSettings, remainingTime,
                   currentSessionType, sessions, completedWhileAway, awayToast,
                   parentCompleted, live, liveTicks, dataVars, taskVars>>

\* ------------------------------------------- simulateCompletedSessions
\* one iteration of the while loop that completes a session (lines 234-253).
\* After MaxAway iterations the counters and the history are no longer
\* followed (tracked = FALSE); the loop itself goes on as in the code.
SimComplete ==
    /\ pc = "sim"
    /\ remainingTime > 0
    /\ LET sessionDuration == getCurrentDurationForState(currentSessionType, currentSettings)
           tracked == completedWhileAway < MaxAway
       IN  /\ remainingTime >= sessionDuration
           /\ remainingTime' = remainingTime - sessionDuration
           /\ completedWhileAway' =
                IF tracked THEN AwayAfter(currentSessionType, completedWhileAway)
                ELSE completedWhileAway
           /\ stSessions' = IF tracked THEN saveSession(stSessions, currentSessionType)
                            ELSE stSessions
           /\ IF currentSessionType = "work"
              THEN /\ sessions' = IF tracked THEN sessions + 1 ELSE sessions
                   /\ parentCompleted' = IF tracked THEN handleTaskComplete(parentCompleted)
                                          ELSE parentCompleted
                   /\ currentSessionType' = BreakAfter(sessions + 1, currentSettings)
              ELSE /\ currentSessionType' = "work"
                   /\ UNCHANGED <<sessions, parentCompleted>>
    /\ UNCHANGED <<pc, stSettings, stTimerState, settings, currentState, timeLeft, isRunning,
                   completedSessions, isInitialized, parsedState, parseError, timeSinceLastUpdate,
                   settingsLoaded, currentSettings, awayToast, live, liveTicks, dataVars, taskVars,
                   mountEffects>>

\* the iteration that finds a partial session and returns (lines 254-266)
SimPartial ==
    /\ pc = "sim"
    /\ remainingTime > 0
    /\ LET sessionDuration == getCurrentDurationForState(currentSessionType, currentSettings)
       IN  /\ remainingTime < sessionDuration
           /\ FinishInit(currentSessionType, PartialTimeLeft(sessionDuration, remainingTime),
                         TRUE, sessions, currentSettings, settingsLoaded)
    /\ awayToast' = completedWhileAway
    /\ UNCHANGED <<stSessions, parsedState, parseError, timeSinceLastUpdate, settingsLoaded, currentSettings,
                   remainingTime, currentSessionType, sessions, completedWhileAway,
                   parentCompleted, live, liveTicks, dataVars, taskVars, mountEffects>>

\* the loop condition fails: start of a new session (lines 269-277)
SimBoundary ==
    /\ pc = "sim"
    /\ remainingTime <= 0
    /\ FinishInit(currentSessionType,
                  getCurrentDurationForState(currentSessionType, currentSettings), FALSE,
                  sessions, currentSettings, settingsLoaded)
    /\ awayToast' = completedWhileAway
    /\ UNCHANGED <<stSessions, parsedState, parseError, timeSinceLastUpdate, settingsLoaded, currentSettings,
                   remainingTime, currentSessionType, sessions, completedWhileAway,
                   parentCompleted, live, liveTicks, dataVars, taskVars, mountEffects>>

\* ------------------------------------------- reconciliation as a function
\* mutant: a session is completed only when more than its duration remains
RECURSIVE SimLoopStrict(_, _, _, _, _)
SimLoopStrict(remaining, type, done, away, s) ==
    LET sessionDuration == getCurrentDurationForState(type, s)
    IN  IF remaining > 0
        THEN IF remaining > sessionDuration
             THEN SimLoopStrict(remaining - sessionDuration,
                                IF type = "work" THEN BreakAfter(done + 1, s) ELSE "work",
                                IF type = "work" THEN done + 1 ELSE done,
                                AwayAfter(type, away), s)
             ELSE [state |-> TimerState(type, PartialTimeLeft(sessionDuration, remaining), TRUE, done),
                   away |-> away]
        ELSE [state |-> TimerState(type, sessionDuration, FALSE, done), away |-> away]

\* simulateCompletedSessions (lines 225-278) as a function of its locals:
\* the state it sets and the number of sessions it reports
RECURSIVE SimLoop(_, _, _, _, _)
SimLoop(remaining, type, done, away, s) ==
    LET sessionDuration == getCurrentDurationForState(type, s)
    IN  IF remaining > 0
        THEN IF remaining >= sessionDuration
             THEN SimLoop(remaining - sessionDuration,
                          IF type = "work" THEN BreakAfter(done + 1, s) ELSE "work",
                          IF type = "work" THEN done + 1 ELSE done,
                          AwayAfter(type, away), s)
             ELSE [state |-> TimerState(type, PartialTimeLeft(sessionDuration, remaining), TRUE, done),
                   away |-> away]
        ELSE [state |-> TimerState(type, sessionDuration, FALSE, done), away |-> away]

\* the initialization effect (lines 184-222) on snapshot p after e seconds
\* with settings s, followed by the [settings, currentState] effect
Reconcile(p, e, s, loaded) ==
    LET r == IF ShouldCatchUp(p, e)
             THEN IF NewTimeLeft(p, e) > 0
                  THEN [state |-> TimerState(p.currentState, NewTimeLeft(p, e), TRUE,
                                             p.completedSessions),
                        away |-> 0]
                  ELSE SimLoop(TotalElapsed(p, e, s), p.currentState, p.completedSessions, 0, s)
             ELSE [state |-> p, away |-> 0]
        st == r.state
    IN  [r EXCEPT !.state.timeLeft =
           SettingsEffect(loaded \/ st.currentState # "work", st.currentState, st.timeLeft,
                          st.isRunning, s)]

\* ------------------------------------------------------------- live timer
\* mutant: every completed phase is counted
NextSessionCountsBreaks(st, s) ==
    LET next == IF st.currentState = "work" THEN BreakAfter(st.completedSessions + 1, s)
                ELSE "work"
    IN  TimerState(next, getCurrentDurationForState(next, s), s.autoStartBreaks,
                   st.completedSessions + 1)

\* nextSession (lines 333-374) on the timer state st, st.isRunning being the
\* value isRunning has when it is called
NextSession(st, s) ==
    LET autoStart == IF st.currentState = "work" THEN s.autoStartBreaks ELSE s.autoStartWork
        run  == IF autoStart THEN TRUE
                ELSE IF ~s.autoStartBreaks /\ ~s.autoStartWork THEN FALSE
                ELSE st.isRunning
        done == IF st.currentState = "work" THEN st.completedSessions + 1
                ELSE st.completedSessions
        next == IF st.currentState = "work" THEN BreakAfter(done, s) ELSE "work"
    IN  TimerState(next, getCurrentDurationForState(next, s), run, done)

\* mutant: the effect also resets a running timer
PhaseChangedAlways(st, s) ==
    [st EXCEPT !.timeLeft = getCurrentDurationForState(st.currentState, s)]

\* the render after a handler in which the phase changed, with its effects
PhaseChanged(st, s) ==
    [st EXCEPT !.timeLeft = SettingsEffect(TRUE, st.currentState, st.timeLeft, st.isRunning, s)]

\* one firing of the interval (lines 379-387) with the render it causes.
\* At prev <= 1 the updater calls nextSession() and returns 0, so timeLeft
\* receives both setTimeLeft(duration) and the returned 0.  React applies
\* the nested update last when it runs the updater while rendering, and the
\* returned 0 last when it has run the updater eagerly at dispatch (the
\* update queue was empty): both outcomes are possible.
Countdown(st, s, eager) ==
    IF st.timeLeft <= 1
    THEN LET n == NextSession(st, s)
         IN  PhaseChanged([n EXCEPT !.timeLeft = IF eager THEN 0 ELSE @], s)
    ELSE [st EXCEPT !.timeLeft = @ - 1]

\* the locals of the initialization effect are gone once an event is handled
InitLocalsGone ==
    /\ parsedState' = <<>>
    /\ parseError' = FALSE
    /\ timeSinceLastUpdate' = 0
    /\ settingsLoaded' = FALSE
    /\ currentSettings' = DefaultSettings
    /\ remainingTime' = 0
    /\ currentSessionType' = "work"
    /\ sessions' = 0
    /\ completedWhileAway' = 0
    /\ awayToast' = 0
    /\ live' = TimerState("work", DefaultSettings.workDuration, FALSE, 0)
    /\ liveTicks' = 0
    /\ mountEffects' = {}
    /\ UNCHANGED dataVars

\* mutant: the save effect depends on timeLeft only
SaveTimerStateOnTimeLeft(st, prev, stored) ==
    IF st.timeLeft # prev.timeLeft THEN <<st>> ELSE stored

\* the save effect of lines 288-300 after a render that takes the timer
\* from prev to st: it runs when one of currentState, timeLeft, isRunning,
\* completedSessions changed and then writes all four
SaveTimerState(st, prev, stored) == IF st # prev THEN <<st>> ELSE stored

\* commit of a render: the state and the snapshot the save effect writes
Commit(st) ==
    /\ currentState' = st.currentState
    /\ timeLeft' = st.timeLeft
    /\ isRunning' = st.isRunning
    /\ completedSessions' = st.completedSessions
    /\ stTimerState' = SaveTimerState(st, TimerState(currentState, timeLeft, isRunning,
                                                      completedSessions), stTimerState)
    /\ UNCHANGED <<pc, settings, isInitialized, stSettings, taskVars>>
    /\ InitLocalsGone

Current == TimerState(currentState, timeLeft, isRunning, completedSessions)

\* saveSession and onTaskComplete for the session that ends (lines 338, 345)
SessionEnds ==
    /\ Len(stSessions) < MaxLog
    /\ completedSessions < MaxLiveCompleted
    /\ stSessions' = saveSession(stSessions, currentState)
    /\ parentCompleted' = IF currentState = "work" THEN handleTaskComplete(parentCompleted)
                          ELSE parentCompleted

\* the interval set by the countdown effect fires (lines 377-399)
Tick(eager) ==
    /\ pc = "ready"
    /\ isRunning /\ timeLeft > 0
    /\ IF timeLeft <= 1
       THEN SessionEnds
       ELSE ~eager /\ UNCHANGED <<stSessions, parentCompleted>>
    /\ Commit(Countdown(Current, settings, eager))

\* lines 316-318
toggleTimer ==
    /\ pc = "ready"
    /\ Commit([Current EXCEPT !.isRunning = ~isRunning])
    /\ UNCHANGED <<stSessions, parentCompleted>>

\* lines 321-324
resetTimer ==
    /\ pc = "ready"
    /\ Commit([Current EXCEPT !.isRunning = FALSE,
                              !.timeLeft = getCurrentDurationForState(currentState, settings)])
    /\ UNCHANGED <<stSessions, parentCompleted>>

\* lines 327-330
skipSession ==
    /\ pc = "ready"
    /\ SessionEnds
    /\ Commit(PhaseChanged(NextSession([Current EXCEPT !.isRunning = FALSE], settings), settings))

\* the Focus / Break / Long Break buttons (lines 611-652)
SelectPhase(cs) ==
    /\ pc = "ready"
    /\ Commit(PhaseChanged(TimerState(cs, getCurrentDurationForState(cs, settings), FALSE,
                                      completedSessions), settings))
    /\ UNCHANGED <<stSessions, parentCompleted>>

\* the render after setSettings(prev => ({...prev, ...})) and its effects:
\* the settings are saved (lines 281-285), the [settings, currentState]
\* effect runs (lines 402-406), and the timer state is saved when the
\* effect changed timeLeft (lines 288-300)
SettingsChanged(s) ==
    LET st == PhaseChanged(Current, s)
    IN  /\ pc = "ready"
        /\ settings' = s
        /\ stSettings' = <<s>>
        /\ currentState' = st.currentState
        /\ timeLeft' = st.timeLeft
        /\ isRunning' = st.isRunning
        /\ completedSessions' = st.completedSessions
        /\ stTimerState' = SaveTimerState(st, Current, stTimerState)
        /\ UNCHANGED <<pc, isInitialized, stSessions, parentCompleted, taskVars>>
        /\ InitLocalsGone

\* the three duration inputs (lines 669-727); d is the new value in seconds
DurationFields == {"workDuration", "shortBreakDuration", "longBreakDuration"}
EditDuration(field, d) ==
    /\ d # settings[field]
    /\ SettingsChanged([settings EXCEPT ![field] = d])

\* the Sessions Until Long Break input (lines 734-744)
EditSessionsUntilLongBreak(n) ==
    /\ n # settings.sessionsUntilLongBreak
    /\ SettingsChanged([settings EXCEPT !.sessionsUntilLongBreak = n])

\* the three switches (lines 752-790)
OptionFields == {"soundEnabled", "autoStartBreaks", "autoStartWork"}
ToggleOption(field) == SettingsChanged([settings EXCEPT ![field] = ~@])

\* the page is closed or reloaded: the components are gone, localStorage stays
Close ==
    /\ pc = "ready"
    /\ Len(stSessions) < MaxLog
    /\ completedSessions < MaxLiveCompleted
    /\ pc' = "closed"
    /\ settings' = DefaultSettings
    /\ currentState' = "work"
    /\ timeLeft' = DefaultSettings.workDuration
    /\ isRunning' = FALSE
    /\ completedSessions' = 0
    /\ isInitialized' = FALSE
    /\ parentCompleted' = 0
    /\ tasksOpen' = FALSE
    /\ tasks' = <<>>
    /\ currentTask' = <<>>
    /\ InitLocalsGone
    /\ UNCHANGED <<stSettings, stTimerState, stSessions, now>>

\* a timer left running from the snapshot, with the loaded settings,
\* receives one more of the elapsed ticks
ShadowTick(eager) ==
    /\ pc = "ready"
    /\ parsedState # <<>>
    /\ parsedState[1].isRunning
    /\ liveTicks < timeSinceLastUpdate
    /\ live.isRunning /\ live.timeLeft > 0
    /\ live.timeLeft > 1 => ~eager
    /\ live' = Countdown(live, settings, eager)
    /\ liveTicks' = liveTicks + 1
    /\ UNCHANGED <<pc, stSettings, stTimerState, stSessions, settings, currentState, timeLeft,
                   isRunning, completedSessions, isInitialized, parsedState,
                   parseError, timeSinceLastUpdate, settingsLoaded, currentSettings, remainingTime,
                   currentSessionType, sessions, completedWhileAway, awayToast,
                   parentCompleted, dataVars, taskVars, mountEffects>>

\* ------------------------------------------------------ Backup & Restore
\* DataExport.tsx.  A stored list (tasks, sessions) is modelled by its
\* contents: every reader takes a missing key for the empty list.  A field
\* of a file is <<>> when it is null or missing and <<value>> otherwise;
\* the type of a complete backup, which has no type field, is "all".
LocalStorage ==
    [settings |-> stSettings, tasks |-> stTasks, sessions |-> stSessions,
     timerState |-> stTimerState, theme |-> stTheme]

\* mutant: the backup leaves the session history out
getAllDataNoSessions(store) ==
    [type |-> "all", settings |-> store.settings, tasks |-> <<store.tasks>>,
     sessions |-> <<<<>>>>, timerState |-> store.timerState,
     theme |-> IF store.theme = <<>> THEN <<"system">> ELSE store.theme]

\* lines 24-40
getAllData(store) ==
    [type |-> "all", settings |-> store.settings, tasks |-> <<store.tasks>>,
     sessions |-> <<store.sessions>>, timerState |-> store.timerState,
     theme |-> IF store.theme = <<>> THEN <<"system">> ELSE store.theme]

\* lines 43-87: the file written for an export of the given type
ExportTypes == {"all", "tasks", "sessions", "settings"}
exportData(type, store) ==
    LET none == [type |-> type, settings |-> <<>>, tasks |-> <<>>, sessions |-> <<>>,
                 timerState |-> <<>>, theme |-> <<>>]
    IN  CASE type = "all" -> getAllData(store)
          [] type = "tasks" -> [none EXCEPT !.tasks = <<store.tasks>>]
          [] type = "sessions" -> [none EXCEPT !.sessions = <<store.sessions>>]
          [] type = "settings" ->
               [none EXCEPT !.settings = store.settings,
                            !.theme = IF store.theme = <<>> THEN <<"system">> ELSE store.theme]

\* mutant: the file's list comes first
MergeListsFileFirst(existing, fromFile) == fromFile \o existing

\* lines 165, 177, 202, 212: [...existing, ...data.tasks]
MergeLists(existing, fromFile) == existing \o fromFile

\* lines 161-169, 173-181, 198-217: a list of the file, when present, is
\* merged into or replaces the stored list
ImportList(present, fromFile, stored, mergeMode) ==
    IF present /\ fromFile # <<>>
    THEN IF mergeMode THEN MergeLists(stored, fromFile[1]) ELSE fromFile[1]
    ELSE stored

\* mutant: the snapshot of a complete backup is imported like the settings
ImportedTimerStateFromFile(data, base) ==
    IF data.type = "all" /\ data.timerState # <<>> THEN data.timerState ELSE base.timerState

\* line 221: the timerState of the file is not imported
ImportedTimerState(data, base) == base.timerState

\* the store after executeImport(mergeMode) of the parsed file data
\* (lines 143-222)
Imported(data, store, mergeMode) ==
    LET base == IF mergeMode THEN store
                ELSE [settings |-> <<>>, tasks |-> <<>>, sessions |-> <<>>,
                      timerState |-> <<>>, theme |-> <<>>]
    IN  [settings |-> IF data.type \in {"all", "settings"} /\ data.settings # <<>>
                      THEN data.settings ELSE base.settings,
         tasks |-> ImportList(data.type \in {"all", "tasks"}, data.tasks, base.tasks, mergeMode),
         sessions |-> ImportList(data.type \in {"all", "sessions"}, data.sessions,
                                 base.sessions, mergeMode),
         timerState |-> ImportedTimerState(data, base),
         theme |-> IF data.type \in {"all", "settings"} /\ data.theme # <<>>
                   THEN data.theme ELSE base.theme]

\* the timer component is not involved
timerVars ==
    <<pc, settings, currentState, timeLeft, isRunning, completedSessions, isInitialized,
      parsedState, parseError, timeSinceLastUpdate, settingsLoaded, currentSettings,
      remainingTime, currentSessionType, sessions, completedWhileAway, awayToast,
      parentCompleted, live, liveTicks, mountEffects>>

\* an export of the stored data is downloaded and the file is chosen in the
\* import tab (exportData, lines 43-104; importDataFromFile, lines 107-121)
LoadOwnExport(type) ==
    /\ pc = "ready"
    /\ importData' = <<exportData(type, LocalStorage)>>
    /\ UNCHANGED <<timerVars, taskVars, stSettings, stTimerState, stSessions, stTasks, stTheme>>

\* a file exported elsewhere is chosen in the import tab
LoadFile(data) ==
    /\ pc = "ready"
    /\ importData' = <<data>>
    /\ UNCHANGED <<timerVars, taskVars, stSettings, stTimerState, stSessions, stTasks, stTheme>>

\* lines 143-239
executeImport(mergeMode) ==
    /\ pc = "ready"
    /\ importData # <<>>
    /\ LET after == Imported(importData[1], LocalStorage, mergeMode)
       IN  /\ Len(after.tasks) <= MaxList
           /\ Len(after.sessions) <= MaxList
           /\ stSettings' = after.settings
           /\ stTasks' = after.tasks
           /\ stSessions' = after.sessions
           /\ stTimerState' = after.timerState
           /\ stTheme' = after.theme
    /\ importData' = <<>>
    /\ UNCHANGED <<timerVars, taskVars>>

\* -------------------------------------------------------------- task list
\* a task as far as selection is concerned (TaskManager.tsx, lines 9-18)
Task(id, isCompleted) == [id |-> id, isCompleted |-> isCompleted]

\* mutant: the selection is kept whatever task is completed or deleted
ClearIfCurrentNever(cur, taskId) == cur

\* if (currentTask?.id === taskId) onTaskSelect(null)  (TaskManager.tsx,
\* lines 84-86 and 96-98): the selection afterwards
ClearIfCurrent(cur, taskId) == IF cur # <<>> /\ cur[1].id = taskId THEN <<>> ELSE cur

\* the tasks shown with Select, complete and delete buttons (line 117)
ActiveTasks == { i \in DOMAIN tasks : ~tasks[i].isCompleted }

\* the timer and the other stored data are not involved
notTaskVars == <<timerVars, stSettings, stTimerState, stSessions, stTheme, importData>>

\* the Tasks tab is opened: TaskManager mounts and loads the stored tasks
\* (lines 31, 41-55); the selection is state of the page (Index.tsx, line 20)
OpenTasks ==
    /\ ~tasksOpen
    /\ tasksOpen' = TRUE
    /\ tasks' = stTasks
    /\ UNCHANGED <<stTasks, currentTask, now, notTaskVars>>

\* another tab is opened: TaskManager unmounts
LeaveTasks ==
    /\ tasksOpen
    /\ tasksOpen' = FALSE
    /\ tasks' = <<>>
    /\ UNCHANGED <<stTasks, currentTask, now, notTaskVars>>

\* lines 57-74, with the save effect of lines 53-55; the id is Date.now()
addTask ==
    /\ tasksOpen
    /\ now < MaxTasks
    /\ now' = now + 1
    /\ tasks' = <<Task(now + 1, FALSE)>> \o tasks
    /\ stTasks' = tasks'
    /\ UNCHANGED <<tasksOpen, currentTask, notTaskVars>>

\* the Select button of an active task that is not the current one
\* (lines 274-283)
selectTask(i) ==
    /\ tasksOpen
    /\ i \in ActiveTasks
    /\ ~(currentTask # <<>> /\ currentTask[1].id = tasks[i].id)
    /\ currentTask' = <<tasks[i]>>
    /\ UNCHANGED <<tasksOpen, tasks, stTasks, now, notTaskVars>>

\* the X button of the Current Task card (lines 123-135)
deselectTask ==
    /\ tasksOpen
    /\ currentTask # <<>>
    /\ currentTask' = <<>>
    /\ UNCHANGED <<tasksOpen, tasks, stTasks, now, notTaskVars>>

\* lines 90-100, from the button of an active task (lines 284-291)
completeTask(i) ==
    /\ tasksOpen
    /\ i \in ActiveTasks
    /\ tasks' = [j \in DOMAIN tasks |->
                    IF tasks[j].id = tasks[i].id THEN [tasks[j] EXCEPT !.isCompleted = TRUE]
                    ELSE tasks[j]]
    /\ stTasks' = tasks'
    /\ currentTask' = ClearIfCurrent(currentTask, tasks[i].id)
    /\ UNCHANGED <<tasksOpen, now, notTaskVars>>

\* lines 82-88, from the button of an active task (lines 292-299)
deleteTask(i) ==
    /\ tasksOpen
    /\ i \in ActiveTasks
    /\ tasks' = SelectSeq(tasks, LAMBDA t : t.id # tasks[i].id)
    /\ stTasks' = tasks'
    /\ currentTask' = ClearIfCurrent(currentTask, tasks[i].id)
    /\ UNCHANGED <<tasksOpen, now, notTaskVars>>

\* --------------------------------------------------------- specification
Next ==
    \/ \E e \in ElapsedChoices : Mount(e)
    \/ SimComplete
    \/ SimPartial
    \/ SimBoundary

Spec == Init /\ [][Next]_vars

\* a loop that is entered keeps executing: the init effect runs to completion
\* on the single UI thread
SimStep == SimComplete \/ SimPartial \/ SimBoundary
FairSpec == Init /\ [][Next]_vars /\ WF_vars(SimStep)

\* startup on degenerate stored data
SkewSpec == SkewInit /\ [][Next]_vars

\* startup with the effects of the mount pass in any order; a save effect
\* that runs after the initialization effect in the pass still sees
\* isInitialized = false and is part of Mount
MountInit ==
    /\ Unmounted
    /\ OnlyTimerData
    /\ stSettings \in {<<>>} \cup { <<s>> : s \in LiveSettings }
    /\ stTimerState \in {<<>>, <<Unparseable>>} \cup { <<t>> : t \in SmallSnapshots }
    /\ stSessions = <<>>

MountNext ==
    \/ MountSaveSettings
    \/ MountSaveTimerState
    \/ \E e \in ElapsedChoices : Mount(e)
    \/ SimComplete
    \/ SimPartial
    \/ SimBoundary

MountSpec == MountInit /\ [][MountNext]_vars

\* startup next to a timer that was left running instead
EquivNext ==
    \/ \E e \in ElapsedChoices : Mount(e)
    \/ SimComplete
    \/ SimPartial
    \/ SimBoundary
    \/ \E eager \in BOOLEAN : ShadowTick(eager)

EquivSpec == Init /\ [][EquivNext]_vars

\* the page in use: startup, the timer's handlers, closing and reopening
LiveNext ==
    \/ \E e \in ElapsedChoices : Mount(e)
    \/ SimComplete
    \/ SimPartial
    \/ SimBoundary
    \/ \E eager \in BOOLEAN : Tick(eager)
    \/ toggleTimer
    \/ resetTimer
    \/ skipSession
    \/ \E cs \in SessionType : SelectPhase(cs)
    \/ Close

LiveSpec == LiveInit /\ [][LiveNext]_vars

\* one visit with the settings panel in use, the history holding a record
\* of an earlier visit
EditInit ==
    /\ Unmounted
    /\ OnlyTimerData
    /\ stSettings \in { <<s>> : s \in { t \in LiveSettings :
                            t.workDuration = MaxDur /\ t.shortBreakDuration = 1 } }
    /\ stTimerState = <<>>
    /\ stSessions = <<"work">>

EditNext ==
    \/ \E e \in ElapsedChoices : Mount(e)
    \/ \E eager \in BOOLEAN : Tick(eager)
    \/ toggleTimer
    \/ resetTimer
    \/ skipSession
    \/ \E cs \in SessionType : SelectPhase(cs)
    \/ \E field \in DurationFields, d \in DurationChoices : EditDuration(field, d)
    \/ \E n \in {2, 3} : EditSessionsUntilLongBreak(n)
    \/ \E field \in OptionFields : ToggleOption(field)

EditSpec == EditInit /\ [][EditNext]_vars

\* the page in use across reloads, with the settings panel: the timer's
\* handlers, some settings edits, closing and reopening after any time
CountInit ==
    /\ Unmounted
    /\ OnlyTimerData
    /\ stSettings \in { <<s>> : s \in { t \in LiveSettings :
                            /\ t.workDuration = MaxDur /\ t.shortBreakDuration = 1
                            /\ t.sessionsUntilLongBreak = 2
                            /\ ~t.autoStartBreaks /\ ~t.autoStartWork } }
    /\ stTimerState = <<>>
    /\ stSessions = <<>>

CountNext ==
    \/ \E e \in ElapsedChoices : Mount(e)
    \/ SimComplete
    \/ SimPartial
    \/ SimBoundary
    \/ \E eager \in BOOLEAN : Tick(eager)
    \/ toggleTimer
    \/ resetTimer
    \/ skipSession
    \/ \E cs \in SessionType : SelectPhase(cs)
    \/ \E d \in {1, MaxDur} : EditDuration("workDuration", d)
    \/ \E field \in OptionFields : ToggleOption(field)
    \/ Close

CountSpec == CountInit /\ [][CountNext]_vars

\* the Tasks tab in use, on a page opened with no task or with a task
\* completed on an earlier visit
TaskInit ==
    /\ Unmounted
    /\ stSettings = <<>>
    /\ stTimerState = <<>>
    /\ stSessions = <<>>
    /\ stTasks \in {<<>>, <<Task(0, TRUE)>>}
    /\ stTheme = <<>>
    /\ importData = <<>>

TaskNext ==
    \/ OpenTasks
    \/ LeaveTasks
    \/ addTask
    \/ \E i \in 1..(MaxTasks + 1) : selectTask(i)
    \/ deselectTask
    \/ \E i \in 1..(MaxTasks + 1) : completeTask(i)
    \/ \E i \in 1..(MaxTasks + 1) : deleteTask(i)

TaskSpec == TaskInit /\ [][TaskNext]_vars

\* stored data of an earlier visit, with tasks and a theme
DataInit ==
    /\ Unmounted
    /\ stSettings \in {<<>>, <<DefaultSettings>>}
    /\ stTimerState \in {<<>>, <<TimerState("work", DefaultSettings.workDuration, FALSE, 0)>>}
    /\ stSessions \in {<<>>, <<"work">>}
    /\ stTasks \in {<<>>, <<"task a">>}
    /\ stTheme \in {<<>>, <<"dark">>}
    /\ importData = <<>>

\* the data of another installation, and the files exported from it
ForeignStores ==
    [settings : {<<[DefaultSettings EXCEPT !.autoStartBreaks = TRUE]>>},
     tasks : {<<>>, <<"task b">>},
     sessions : {<<>>, <<"shortBreak">>},
     timerState : {<<TimerState("shortBreak", 1, TRUE, 1)>>},
     theme : {<<"light">>}]
ForeignFiles == { exportData(type, store) : type \in ExportTypes, store \in ForeignStores }

\* the page with the Backup & Restore dialog in use; the stored snapshot is
\* absent or paused, so the elapsed time of a reload plays no part
DataNext ==
    \/ \E e \in {0} : Mount(e)
    \/ \E type \in ExportTypes : LoadOwnExport(type)
    \/ \E data \in ForeignFiles : LoadFile(data)
    \/ \E mergeMode \in BOOLEAN : executeImport(mergeMode)
    \/ Close

DataSpec == DataInit /\ [][DataNext]_vars

\* ------------------------------------------------------------------ claims
\* startup has completed for a stored snapshot
Reconciled == pc = "ready" /\ parsedState # <<>>
Snapshot == parsedState[1]
Elapsed == timeSinceLastUpdate

SameAsSnapshot ==
    /\ currentState = Snapshot.currentState
    /\ timeLeft = Snapshot.timeLeft
    /\ isRunning = Snapshot.isRunning
    /\ completedSessions = Snapshot.completedSessions

NothingCompletedAway == awayToast = 0 /\ stSessions = <<>> /\ parentCompleted = 0

PositiveDurations(s) ==
    s.workDuration > 0 /\ s.shortBreakDuration > 0 /\ s.longBreakDuration > 0

\* C1: a paused snapshot is restored exactly once startup has completed
\* (phase, timeLeft, completedSessions, not running, no away toast), for
\* every elapsed time, saved settings present or absent.
C1_PausedRestoredExactly ==
    (Reconciled /\ ~Snapshot.isRunning) => (SameAsSnapshot /\ awayToast = 0)

\* C2: a running snapshot with 0 < elapsed < timeLeft keeps its phase and
\* session count, has timeLeft reduced by elapsed, is running, and nothing
\* is reported or recorded as completed while away.
C2_StillInPhase ==
    (Reconciled /\ Snapshot.isRunning /\ 0 < Elapsed /\ Elapsed < Snapshot.timeLeft)
      => /\ currentState = Snapshot.currentState
         /\ timeLeft = Snapshot.timeLeft - Elapsed
         /\ isRunning
         /\ completedSessions = Snapshot.completedSessions
         /\ NothingCompletedAway

C2_Witness ==
    /\ Reconciled /\ Snapshot.isRunning /\ Elapsed = 2 /\ Snapshot.timeLeft = 3
    /\ settingsLoaded /\ Snapshot.currentState = "shortBreak"

\* the reference simulation of the specification (Case C): the phase in
\* progress is completed, then every phase the overflow covers
RECURSIVE RefLoop(_, _, _, _)
RefLoop(phase, done, overflow, s) ==
    LET d == getCurrentDurationForState(phase, s)
        done2 == IF phase = "work" THEN done + 1 ELSE done
        next == IF phase = "work"
                THEN (IF done2 % s.sessionsUntilLongBreak = 0 THEN "longBreak" ELSE "shortBreak")
                ELSE "work"
    IN  IF overflow >= d
        THEN RefLoop(next, done2, overflow - d, s)
        ELSE [phase |-> phase, secondsRemaining |-> d - overflow, completedWorkSessions |-> done]

Reference(p, e, s) ==
    LET done2 == IF p.currentState = "work" THEN p.completedSessions + 1
                 ELSE p.completedSessions
        next == IF p.currentState = "work"
                THEN (IF done2 % s.sessionsUntilLongBreak = 0 THEN "longBreak" ELSE "shortBreak")
                ELSE "work"
    IN  RefLoop(next, done2, e - p.timeLeft, s)

MatchesReference ==
    LET r == Reference(Snapshot, Elapsed, settings)
    IN  /\ currentState = r.phase
        /\ timeLeft = r.secondsRemaining
        /\ completedSessions = r.completedWorkSessions

CaseC ==
    /\ Reconciled /\ Snapshot.isRunning /\ Elapsed >= Snapshot.timeLeft
    /\ PositiveDurations(settings)
    /\ Snapshot.timeLeft <= getCurrentDurationForState(Snapshot.currentState, settings)

\* C3 as stated: for every running snapshot with elapsed >= timeLeft
\* (durations positive, timeLeft <= duration) the reconciled phase, timeLeft
\* and completedSessions equal the reference simulation.
C3_Original == CaseC => MatchesReference

\* C3 amended: the same for elapsed >= 1; with elapsed = 0 (and a stored
\* timeLeft of 0) the snapshot is restored unchanged instead.
C3_MatchesReference == (CaseC /\ Elapsed > 0) => MatchesReference

C3_Witness ==
    /\ CaseC /\ Elapsed = 5 /\ Snapshot.timeLeft = 1 /\ completedWhileAway >= 3
    /\ timeLeft < getCurrentDurationForState(currentState, settings)

\* C4: a snapshot that was running is running after reconciliation, for
\* every elapsed time, also when the elapsed time ends exactly on a phase
\* boundary.
C4_StaysRunning == (Reconciled /\ Snapshot.isRunning) => isRunning

\* C5: reconciling a running snapshot after elapsed seconds gives the state
\* (phase, timeLeft, completedSessions, isRunning) of a timer that started
\* from the snapshot and received elapsed one-second ticks.
C5_SameAsLeftRunning ==
    (Reconciled /\ Snapshot.isRunning /\ liveTicks = Elapsed) => live = Current

\* C6: every completed phase, in the live timer (countdown or skip) and in
\* the away simulation, is followed by the phase of the cycle rule applied
\* to the incremented count: after work a long break iff (count + 1) mod
\* sessionsUntilLongBreak = 0, else a short break; after a break work,
\* with the count unchanged.
C6_LiveRule ==
    (pc = "ready" /\ pc' = "ready" /\ stSessions' # stSessions) =>
      IF currentState = "work"
      THEN /\ completedSessions' = completedSessions + 1
           /\ currentState' = IF (completedSessions + 1) % settings.sessionsUntilLongBreak = 0
                               THEN "longBreak" ELSE "shortBreak"
      ELSE /\ completedSessions' = completedSessions
           /\ currentState' = "work"

C6_AwayRule ==
    (pc = "sim" /\ stSessions' # stSessions) =>
      IF currentSessionType = "work"
      THEN /\ sessions' = sessions + 1
           /\ currentSessionType' =
                 IF (sessions + 1) % currentSettings.sessionsUntilLongBreak = 0
                 THEN "longBreak" ELSE "shortBreak"
      ELSE /\ sessions' = sessions
           /\ currentSessionType' = "work"

C6_CycleRule == [][C6_LiveRule /\ C6_AwayRule]_vars

C6_Witness ==
    /\ pc = "ready" /\ settings.sessionsUntilLongBreak = 2
    /\ stSessions = <<"work", "shortBreak", "work">>
    /\ parentCompleted = 2 /\ completedSessions = 2 /\ currentState = "longBreak"

\* the away simulation ran
Simulated ==
    Reconciled /\ Snapshot.isRunning /\ Elapsed > 0 /\ Elapsed >= Snapshot.timeLeft

WorkRecords == Cardinality({ i \in 1..Len(stSessions) : stSessions[i] = "work" })

IsScenario2 ==
    /\ Snapshot = TimerState("work", 5, TRUE, 3) /\ Elapsed = 3005 /\ settings = DefaultSettings

\* C7 as stated: the reported number counts the phase that was in progress
\* once and afterwards only the work phases that fully elapse; 3 in the
\* scenario work / 5 s left / 3 sessions / elapsed 3005.
C7_Original ==
    Simulated =>
      /\ awayToast = (IF Snapshot.currentState = "work" THEN 0 ELSE 1)
                       + (completedSessions - Snapshot.completedSessions)
      /\ IsScenario2 => awayToast = 3

\* C7 amended: the reported number counts every session the simulation
\* completes, work and break alike (one per record it appends to the
\* history, of which the work records are the increase of the session
\* count); it is 4 in the scenario.
C7_CountsEverySession ==
    Simulated =>
      /\ awayToast = Len(stSessions)
      /\ completedSessions - Snapshot.completedSessions = WorkRecords
      /\ IsScenario2 => awayToast = 4

C7_Witness == Simulated /\ IsScenario2

\* durations of the sessions that fully elapsed after the one in progress
RECURSIVE SumAfterFirst(_)
SumAfterFirst(i) ==
    IF i > Len(stSessions) THEN 0
    ELSE getCurrentDurationForState(stSessions[i], settings) + SumAfterFirst(i + 1)

Conserved ==
    Snapshot.timeLeft + SumAfterFirst(2)
      + (getCurrentDurationForState(currentState, settings) - timeLeft) = Elapsed

\* C8 as stated: for every running snapshot with elapsed >= timeLeft,
\* snapshot timeLeft + durations of the phases that fully elapsed after the
\* one in progress + (duration of the final phase - final timeLeft) = elapsed.
C8_Original ==
    (Reconciled /\ Snapshot.isRunning /\ Elapsed >= Snapshot.timeLeft) => Conserved

\* C8 amended: the same for elapsed >= 1.
C8_TimeConserved ==
    (Reconciled /\ Snapshot.isRunning /\ Elapsed >= Snapshot.timeLeft /\ Elapsed > 0)
      => Conserved

C8_Witness ==
    /\ Reconciled /\ Snapshot.isRunning /\ Elapsed = 5 /\ Snapshot.timeLeft = 2
    /\ Len(stSessions) = 3 /\ isRunning

\* C9: the away simulation terminates for every input, also when one, two
\* or all three phase durations are 0.
C9_Terminates == (pc = "sim") ~> (pc = "ready")

\* C10: a running snapshot with elapsed = 0 is restored unchanged and
\* nothing is reported or recorded as completed while away.
C10_ZeroElapsed ==
    (Reconciled /\ Snapshot.isRunning /\ Elapsed = 0)
      => (SameAsSnapshot /\ NothingCompletedAway)

C10_Witness ==
    /\ Reconciled /\ Snapshot.isRunning /\ Elapsed = 0 /\ Snapshot.timeLeft = 0
    /\ settingsLoaded /\ PositiveDurations(settings)

\* C11: a negative wall-clock difference is treated as elapsed = 0: the
\* reconciled state equals the snapshot and nothing is completed, for
\* running and paused snapshots alike; and a negative stored timeLeft is
\* never the timeLeft of the timer after startup.
C11_NegativeElapsedIsZero ==
    (Reconciled /\ Elapsed < 0 /\ Snapshot.timeLeft >= 0)
      => (SameAsSnapshot /\ NothingCompletedAway)

C11_NeverNegative == Reconciled => timeLeft >= 0

C11_SkewClamped == C11_NegativeElapsedIsZero /\ C11_NeverNegative

\* C12: when the stored snapshot is absent or cannot be parsed, startup
\* completes (the parse error is caught) and the timer is in the work phase
\* at the full work duration of the loaded settings (of the default
\* settings, 25 min, when none are stored), paused, with 0 completed
\* sessions.
C12_FallsBackToDefaults ==
    (pc = "ready" /\ parsedState = <<>>) =>
      /\ currentState = "work"
      /\ timeLeft = settings.workDuration
      /\ ~isRunning
      /\ completedSessions = 0
      /\ ~settingsLoaded => (settings = DefaultSettings /\ timeLeft = 25 * 60)

C12_Witness ==
    /\ pc = "ready" /\ parseError /\ parsedState = <<>>
    /\ settingsLoaded /\ settings.workDuration = 2 /\ timeLeft = 2

\* C13: every snapshot the timer writes has 0 <= timeLeft <= duration of
\* its phase under the settings in force when it is written, after any
\* sequence of start, pause, reset, skip, tick, phase selection and settings
\* edits.
C13_WrittenWithinDuration ==
    [][(pc' = "ready" /\ stTimerState' # stTimerState) =>
          LET t == stTimerState'[1]
          IN  /\ 0 <= t.timeLeft
              /\ t.timeLeft <= getCurrentDurationForState(t.currentState, settings')]_vars

\* C14: once startup has completed, after every tick, pause, resume, reset,
\* skip and phase change the stored snapshot has the phase, timeLeft,
\* isRunning and completedSessions of the timer.
C14_SnapshotFollowsTimer == (pc = "ready") => stTimerState = <<Current>>

C14_Witness ==
    /\ pc = "ready" /\ stTimerState = <<Current>>
    /\ currentState = "shortBreak" /\ isRunning /\ timeLeft = 1
    /\ completedSessions = 1 /\ Len(stSessions) = 3

AllZero(s) == s.workDuration = 0 /\ s.shortBreakDuration = 0 /\ s.longBreakDuration = 0

\* C15: for a running snapshot and elapsed >= 0, the state after startup is
\* the value of the reconciliation function, and one more elapsed second
\* that completes no further phase gives the same phase and session count
\* with timeLeft smaller by 1; timeLeft increases only when a further phase
\* is completed (with positive durations and a snapshot that had time left:
\* only when the phase changes).
C15_MonotoneInPhase ==
    (Reconciled /\ Snapshot.isRunning /\ Elapsed >= 0 /\ ~AllZero(settings)) =>
      LET r1 == Reconcile(Snapshot, Elapsed, settings, settingsLoaded)
          r2 == Reconcile(Snapshot, Elapsed + 1, settings, settingsLoaded)
      IN  /\ r1.state = Current
          /\ r1.away = awayToast
          /\ r2.away = r1.away =>
                /\ r2.state.currentState = r1.state.currentState
                /\ r2.state.completedSessions = r1.state.completedSessions
                /\ r2.state.timeLeft = r1.state.timeLeft - 1
          /\ r2.state.timeLeft > r1.state.timeLeft => r2.away > r1.away
          /\ (PositiveDurations(settings) /\ Snapshot.timeLeft > 0
                /\ r2.state.timeLeft > r1.state.timeLeft)
                => r2.state.currentState # r1.state.currentState

\* the elapsed time ends exactly on a phase boundary and the next second
\* falls inside the phase that follows
C15_Witness ==
    /\ Reconciled /\ Snapshot.isRunning /\ Elapsed = 3 /\ awayToast = 2 /\ ~isRunning
    /\ timeLeft = 2
    /\ Reconcile(Snapshot, Elapsed + 1, settings, settingsLoaded).state.timeLeft = 1

\* a step of the startup reconciliation: the initialization effect or an
\* iteration of the away simulation
ReconciliationStep == pc \in {"closed", "sim"}

\* C16 as stated: reconciliation changes nothing except the timer's phase,
\* timeLeft, isRunning and completedSessions; the stored session history and
\* the parent's session counter are the same before and after it.
C16_Original ==
    [][ReconciliationStep =>
          (stSessions' = stSessions /\ parentCompleted' = parentCompleted)]_vars

\* C16 amended: besides the timer's four fields, reconciliation appends to
\* the stored history one record for every phase it completes while away
\* and increments the parent's counter once for every completed work phase;
\* the records already stored stay, stored settings keep their contents, and
\* nothing is appended when no phase is completed (snapshot paused,
\* elapsed <= 0 or elapsed < timeLeft).
C16_OnlyRecordsCompletedPhases ==
    [][ReconciliationStep =>
          /\ \/ stSessions' = stSessions /\ parentCompleted' = parentCompleted
             \/ /\ pc = "sim" /\ remainingTime > 0
                /\ remainingTime >= getCurrentDurationForState(currentSessionType, currentSettings)
                /\ stSessions' = stSessions \o <<currentSessionType>>
                /\ parentCompleted' = parentCompleted
                                        + (IF currentSessionType = "work" THEN 1 ELSE 0)
          /\ stSettings # <<>> => stSettings' = stSettings
          /\ (pc = "closed" /\ pc' = "sim") =>
                /\ stTimerState[1].isRunning
                /\ timeSinceLastUpdate' > 0
                /\ timeSinceLastUpdate' >= stTimerState[1].timeLeft]_vars

\* a reopened page whose history held two records, with one work phase
\* completed while away
C16_Witness ==
    /\ Reconciled /\ awayToast = 1 /\ Len(stSessions) = 3 /\ stSessions[3] = "work"
    /\ parentCompleted = 1

\* C17: when a work phase ends in the live timer (countdown or skip) the
\* break that follows is running iff autoStartBreaks is on, and when a break
\* ends the work phase that follows is running iff autoStartWork is on.
C17_AutoStartPerDirection ==
    [][(pc = "ready" /\ pc' = "ready" /\ stSessions' # stSessions) =>
          (isRunning' = IF currentState = "work" THEN settings.autoStartBreaks
                        ELSE settings.autoStartWork)]_vars

\* a phase completes: the countdown reaches its end, the phase is skipped,
\* or an iteration of the away simulation completes a session
CompletesLive == skipSession \/ (timeLeft <= 1 /\ \E eager \in BOOLEAN : Tick(eager))

C19_BackupRoundTrip ==
    [][(executeImport(FALSE) /\ importData = <<getAllData(LocalStorage)>>) =>
          (stSettings' = stSettings /\ stTasks' = stTasks /\ stSessions' = stSessions)]_vars

\* the own backup was imported in replace mode: the snapshot is deleted, the
\* missing theme came back as "system", tasks and sessions are the own ones
C19_Witness ==
    /\ pc = "ready" /\ importData = <<>> /\ stTimerState = <<>> /\ stTheme = <<"system">>
    /\ stSettings = <<DefaultSettings>> /\ stTasks = <<"task a">> /\ stSessions = <<"work">>

\* the list of a file, empty when the file has none
FileList(field) == IF field = <<>> THEN <<>> ELSE field[1]

\* C20: after a replace import the stored tasks and sessions are exactly
\* the file's lists; after a merge import they are the lists stored before
\* followed by the file's lists.
C20_ImportModes ==
    [][/\ executeImport(FALSE) =>
            /\ stTasks' = FileList(importData[1].tasks)
            /\ stSessions' = FileList(importData[1].sessions)
       /\ executeImport(TRUE) =>
            /\ stTasks' = stTasks \o FileList(importData[1].tasks)
            /\ stSessions' = stSessions \o FileList(importData[1].sessions)]_vars

\* a complete backup of another installation was merged into the own data
C20_Witness ==
    /\ pc = "ready" /\ importData = <<>>
    /\ stTasks = <<"task a", "task b">> /\ stSessions = <<"work", "shortBreak">>
    /\ stTimerState # <<>>

\* C21: an import never writes the stored timer snapshot from the file; a
\* merge import of any file leaves it unchanged, and the only step that
\* deletes it is a replace import.
C21_SnapshotNotImported ==
    [][/\ (\E mergeMode \in BOOLEAN : executeImport(mergeMode)) =>
            stTimerState' \in {stTimerState, <<>>}
       /\ executeImport(TRUE) => stTimerState' = stTimerState
       /\ (stTimerState # <<>> /\ stTimerState' = <<>>) => executeImport(FALSE)]_vars

\* the complete backup of another installation, which holds a snapshot, was
\* merged: the own snapshot is still the stored one
C21_Witness ==
    /\ pc = "ready" /\ importData = <<>>
    /\ stTasks = <<"task a", "task b">> /\ stSessions = <<"work">> /\ stTheme = <<"light">>
    /\ stTimerState = <<TimerState("work", DefaultSettings.workDuration, FALSE, 0)>>

\* C22: a settings change while the timer is not running sets timeLeft to
\* the full duration of the current phase under the new settings; a
\* settings change while the timer is running leaves timeLeft, phase and
\* isRunning unchanged.
C22_SettingsChange ==
    [][(pc = "ready" /\ settings' # settings) =>
          /\ currentState' = currentState
          /\ isRunning' = isRunning
          /\ timeLeft' = IF isRunning THEN timeLeft
                         ELSE getCurrentDurationForState(currentState, settings')]_vars

\* the work duration was shortened under a running timer, and lengthened
\* under a paused one
C22_Witness ==
    /\ pc = "ready" /\ currentState = "work"
    /\ \/ isRunning /\ timeLeft = MaxDur /\ settings.workDuration = 1
       \/ ~isRunning /\ timeLeft = MaxDur /\ settings.workDuration = MaxDur
          /\ stTimerState = <<Current>> /\ settings.shortBreakDuration = 0

\* C23: a running timer never gets stuck: the tick that takes timeLeft from
\* 1 to 0 enters the next phase with timeLeft equal to that phase's full
\* duration, and the mounted timer is never running with timeLeft = 0 (the
\* countdown effect sets no interval then), whatever the auto-start options.
C23_RunningNeverStuck ==
    [][/\ (timeLeft = 1 /\ \E eager \in BOOLEAN : Tick(eager)) =>
            timeLeft' = getCurrentDurationForState(currentState', settings')
       /\ (pc' = "ready" /\ isRunning') => timeLeft' > 0]_vars

\* C24: the stored snapshot and the stored settings are not written while
\* isInitialized is false, whatever the order of the effects of the mount
\* pass: a step that leaves isInitialized false changes neither key, and
\* stored settings come out of startup as they went in.
C24_NoWriteBeforeInit ==
    [][/\ ~isInitialized' => (stSettings' = stSettings /\ stTimerState' = stTimerState)
       /\ (~isInitialized /\ stSettings # <<>>) => stSettings' = stSettings]_vars

\* both save effects ran before the initialization effect, which then
\* restored a running snapshot under the saved settings
C24_Witness ==
    /\ pc = "ready" /\ mountEffects = {"settings", "timerState"}
    /\ parsedState # <<>> /\ parsedState[1].isRunning /\ settingsLoaded
    /\ stSettings = <<settings>> /\ settings # DefaultSettings
    /\ stTimerState = <<Current>> /\ isRunning

\* C25: changing soundEnabled, autoStartBreaks or autoStartWork leaves the
\* phase, timeLeft, isRunning and completedSessions unchanged, whether the
\* timer is running or paused part-way through a phase.
C25_OptionsLeaveTimer ==
    [][(\E field \in OptionFields : ToggleOption(field)) =>
          UNCHANGED <<currentState, timeLeft, isRunning, completedSessions>>]_vars

\* C26: reconciliation composes across reloads: reconciling a running
\* snapshot after e1 seconds, persisting the result and reconciling it after
\* e2 more seconds gives the same phase, timeLeft, isRunning and
\* completedSessions as reconciling the snapshot once after e1 + e2 seconds,
\* for all e1, e2 >= 0 (durations not all 0).
C26_ComposesAcrossReloads ==
    (Reconciled /\ Snapshot.isRunning /\ Elapsed >= 0 /\ ~AllZero(settings)) =>
      \A e2 \in 0..(MaxElapsed - Elapsed) :
         Reconcile(stTimerState[1], e2, settings, TRUE).state
            = Reconcile(Snapshot, Elapsed + e2, settings, settingsLoaded).state

\* C27: the session count (completedSessions of the mounted timer, the
\* simulation's counter during startup, the stored snapshot's count while the
\* page is closed) never decreases and changes only by +1, exactly when a
\* work phase is completed by the countdown, by skip or by the away
\* simulation; pause/resume, reset, the phase buttons, settings edits, break
\* completions, closing and reopening leave it unchanged.
C27_CountOnlyGrowsByWork ==
    [][LET Count(p, done, sim, stored) ==
               IF p = "ready" THEN done
               ELSE IF p = "sim" THEN sim
               ELSE IF stored # <<>> THEN stored[1].completedSessions ELSE 0
           WorkCompletes ==
               \/ pc = "ready" /\ currentState = "work"
                     /\ (skipSession \/ (timeLeft <= 1 /\ \E eager \in BOOLEAN : Tick(eager)))
               \/ pc = "sim" /\ currentSessionType = "work" /\ SimComplete
       IN  Count(pc', completedSessions', sessions', stTimerState')
             = IF WorkCompletes
               THEN Count(pc, completedSessions, sessions, stTimerState) + 1
               ELSE Count(pc, completedSessions, sessions, stTimerState)]_vars

\* two work phases were counted, one by the away simulation of a reload and
\* one in the live timer, with a settings edit and a reset in between
C27_Witness ==
    /\ pc = "ready" /\ completedSessions = 2 /\ parentCompleted = 1
    /\ stSessions = <<"work", "shortBreak", "work">>
    /\ settings.workDuration = 1 /\ ~settings.soundEnabled /\ ~isRunning
    /\ stTimerState = <<Current>>

\* C28: importing a partial export (type tasks, sessions or settings), in
\* replace mode as in merge mode, changes only the stored data of that type:
\* the stored settings, tasks, sessions and theme of the other types are the
\* same after the import as before it.
C28_PartialImportFrame ==
    [][(importData # <<>> /\ \E mergeMode \in BOOLEAN : executeImport(mergeMode)) =>
          /\ importData[1].type = "tasks" =>
                (stSettings' = stSettings /\ stSessions' = stSessions /\ stTheme' = stTheme)
          /\ importData[1].type = "sessions" =>
                (stSettings' = stSettings /\ stTasks' = stTasks /\ stTheme' = stTheme)
          /\ importData[1].type = "settings" =>
                (stTasks' = stTasks /\ stSessions' = stSessions)]_vars

\* C29: the selected task is null or a task of the task list that is not
\* completed; completing or deleting the selected task clears the
\* selection, and completing or deleting another task leaves it unchanged.
C29_SelectionIsActiveTask ==
    [][/\ \/ currentTask' = <<>>
          \/ \E i \in DOMAIN stTasks' :
                stTasks'[i].id = currentTask'[1].id /\ ~stTasks'[i].isCompleted
       /\ \A i \in DOMAIN tasks :
             (completeTask(i) \/ deleteTask(i)) =>
                IF currentTask # <<>> /\ currentTask[1].id = tasks[i].id
                THEN currentTask' = <<>>
                ELSE currentTask' = currentTask
       /\ tasksOpen' => tasks' = stTasks']_vars

\* a task is selected after another one was completed and a third deleted
C29_Witness ==
    /\ tasksOpen /\ now = 3
    /\ tasks = <<Task(3, FALSE), Task(1, TRUE)>>
    /\ currentTask = <<Task(3, FALSE)>>

====
